---- MODULE Spec2Model ----
(* A model of st.py: one Streamlit session running main() over and over.   *)
(* Each script run authenticates (memoized), pages through the listing of  *)
(* one user (memoized), and renders the summary tables of generate_charts. *)
EXTENDS Integers, Sequences, FiniteSets, TLC

VARIABLES
    pc,             \* position of the current script run inside main()
    runs,           \* number of script runs started in this session
    trigger,        \* the widget whose interaction started the current run
    username_input, \* value of the st.text_input widget
    authCache,      \* st.cache_data entry of get_auth_token: <<>> or <<value>>
    statsCache,     \* st.cache_data entries of get_user_stats, by (headers, username)
    token,          \* main's local `token`
    stats,          \* main's local `stats`: <<>> before the call returns, <<list>> after
    page,           \* get_user_stats' local `page`
    user_content,   \* get_user_stats' local `user_content`
    requested,      \* pages requested by the running get_user_stats call
    received,       \* responses received by the running get_user_stats call
    authPosts,      \* number of POST /auth requests made by the process
    authResp,       \* the response the POST /auth got: <<>> or <<response>>
    cacheSets,      \* how often each get_user_stats cache entry was written
    highlights,     \* st.session_state["highlights"]
    messages,       \* st.error / st.write notices of the current run
    charts,         \* what generate_charts rendered in the current run: <<>> or <<tables>>
    rendered        \* the tables last rendered for each username: <<>> or <<tables>>

vars == <<pc, runs, trigger, username_input, authCache, statsCache, token, stats,
          page, user_content, requested, received, authPosts, authResp, cacheSets,
          highlights, messages, charts, rendered>>

(* ---------------------------------------------------------------- bounds *)
MaxPage == 2        \* the upstream listing has at most this many non-empty pages
MaxRuns == 3        \* script runs per session

(* ------------------------------------------------------------- constants *)
StatusOK == 200
HoursPerDay == 24

keys_to_extract == {"created_at", "tags", "content"}

day_of_week_order ==
    <<"Poniedzialek", "Wtorek", "Sroda", "Czwartek", "Piatek", "Sobota", "Niedziela">>

None == "<None>"

\* Python truthiness of a token value: None and "" are falsy.
Truthy(value) == value \notin {None, ""}

Last(s) == s[Len(s)]

(* ------------------------------------------------- the platform's answers *)
\* created_at is the text "2024-01-<d+1> <h>:00:00", written <<d, h>>.
\* Upstream records carry more fields than the three the program keeps.
E1 == [id |-> 1, created_at |-> <<0, 10>>, tags |-> <<"a", "b">>, content |-> "x"]
E2 == [id |-> 2, created_at |-> <<0, 11>>, tags |-> <<"a">>, content |-> "y"]
E3 == [id |-> 3, created_at |-> <<2, 9>>, tags |-> <<>>, content |-> "z"]
\* a record without the "tags" field
EBad == [id |-> 4, created_at |-> <<1, 9>>, content |-> "w"]

\* The pages a listing request may be answered with.
ListingPages ==
    {<<>>, <<E1>>, <<E3>>, <<E1, E2>>, <<E2, E1>>, <<E3, E1>>, <<EBad>>, <<E1, EBad>>}
SessionPages == {<<>>, <<E1>>, <<E3, E1>>}

TransportError == [kind |-> "error"]
Response(status, body) == [kind |-> "response", status |-> status, body |-> body]
NotJson == [json |-> FALSE]
Json(obj) == [json |-> TRUE, obj |-> obj]

Statuses == {StatusOK, 500}

ListingBodies(pages) ==
    {NotJson, Json([message |-> "m"])} \cup {Json([data |-> p]) : p \in pages}

ListingResponses(pages) ==
    {TransportError}
        \cup {Response(StatusOK, b) : b \in ListingBodies(pages)}
        \cup {Response(500, b) : b \in {NotJson, Json([data |-> <<E1>>])}}

AuthBodies ==
    {NotJson, Json([message |-> "m"]), Json([data |-> [key |-> "k"]]),
     Json([data |-> [token |-> "tok"]]), Json([data |-> [token |-> ""]])}

AuthResponses ==
    {TransportError} \cup {Response(s, b) : s \in Statuses, b \in AuthBodies}

SessionAuthResponses ==
    {TransportError, Response(StatusOK, Json([data |-> [token |-> "tok"]]))}

Usernames == {"m__b", "other"}
Tokens == {"tok"}
Bearer(t) == <<"Authorization", "Bearer", t>>
Keys == {Bearer(t) : t \in Tokens} \X Usernames
Texts == {"x"}

(* ---------------------------------------------------------- extract_data *)
\* d[k] raises KeyError when a record lacks one of the keys.
HasKeys(d) == keys_to_extract \subseteq DOMAIN d

extract_data_raises(content) == \E i \in 1..Len(content) : ~HasKeys(content[i])

extract_data(content) ==
    [i \in 1..Len(content) |-> [k \in keys_to_extract |-> content[i][k]]]

(* ------------------------------------------------------- pandas operations *)
\* pd.to_datetime of the text <<d, h>>: hours since 2024-01-01 00:00 (a Monday).
to_datetime(text) == text[1] * HoursPerDay + text[2]
dt_date(ts) == ts \div HoursPerDay
dt_hour(ts) == ts % HoursPerDay
dt_day_name(ts) == day_of_week_order[(dt_date(ts) % Len(day_of_week_order)) + 1]

Range(s) == {s[i] : i \in 1..Len(s)}
SetMin(S) == CHOOSE x \in S : \A y \in S : x <= y
SetMax(S) == CHOOSE x \in S : \A y \in S : y <= x

\* Series.value_counts(): each distinct value with its number of occurrences,
\* in order of first occurrence for equal counts (rows: <<value, count>>).
Occurrences(s, v) == Cardinality({i \in 1..Len(s) : s[i] = v})

RECURSIVE Distinct(_)
Distinct(s) ==
    IF s = <<>> THEN <<>>
    ELSE LET front == Distinct(SubSeq(s, 1, Len(s) - 1))
         IN IF Last(s) \in Range(front) THEN front ELSE Append(front, Last(s))

value_counts(s) ==
    LET keys == Distinct(s)
        byCount == SortSeq(keys, LAMBDA a, b : Occurrences(s, a) > Occurrences(s, b))
    IN [i \in 1..Len(byCount) |-> <<byCount[i], Occurrences(s, byCount[i])>>]

\* Mutant of sort_index: the rows stay in the order of value_counts.
sort_index_skipped(rows) == rows

\* Series.sort_index(): rows in ascending order of their key.
sort_index(rows) == SortSeq(rows, LAMBDA a, b : a[1] < b[1])

\* Mutant of reindex: the rows are left as they are, with no row added.
reindex_skipped(rows, index, fill) == rows

\* Series.reindex(index, fill_value): one row per element of index, in its order;
\* a key without a row gets fill.
Lookup(rows, key, fill) ==
    IF \E i \in 1..Len(rows) : rows[i][1] = key
    THEN (CHOOSE r \in Range(rows) : r[1] = key)[2]
    ELSE fill

reindex(rows, index, fill) ==
    [i \in 1..Len(index) |-> <<index[i], Lookup(rows, index[i], fill)>>]

\* pd.date_range(start, end): every date from start to end, both included.
date_range(start, end) == [i \in 1..(end - start + 1) |-> start + i - 1]

\* DataFrame.explode("tags") followed by the column "tags", NaN rows dropped
\* (value_counts ignores them): the tags of all records, in order.
RECURSIVE explode_tags(_)
explode_tags(content) ==
    IF content = <<>> THEN <<>>
    ELSE content[1].tags \o explode_tags(Tail(content))

(* ------------------------------------------------- generate_charts: tables *)
\* The data frame: created_at parsed, plus the derived date, hour, day_of_week.
DataFrame(content) ==
    [i \in 1..Len(content) |->
        LET ts == to_datetime(content[i].created_at)
        IN [created_at |-> ts, tags |-> content[i].tags, content |-> content[i].content,
            date |-> dt_date(ts), hour |-> dt_hour(ts), day_of_week |-> dt_day_name(ts)]]

Column(df, name) == [i \in 1..Len(df) |-> df[i][name]]

\* Chart 1: posts per tag.
tags_count(df) == value_counts(explode_tags(df))

\* Chart 2: posts per calendar date over the whole range of dates.
posts_over_time(df) ==
    LET dates == Column(df, "date")
    IN reindex(sort_index(value_counts(dates)),
               date_range(SetMin(Range(dates)), SetMax(Range(dates))), 0)

\* Chart 4: posts per weekday on the fixed order; reindex has no fill_value,
\* so a weekday without posts is NaN, written <<>> (a count n is <<n>>).
day_of_week_count(df) ==
    LET counted == value_counts(Column(df, "day_of_week"))
        boxed == [i \in 1..Len(counted) |-> <<counted[i][1], <<counted[i][2]>> >>]
    IN reindex(boxed, day_of_week_order, <<>>)

\* Chart 5: posts per hour of the day.
hour_of_day_count(df) == sort_index(value_counts(Column(df, "hour")))

\* The table shown at the bottom: df[["created_at", "tags", "content"]].
posts_table(df) ==
    [i \in 1..Len(df) |->
        [created_at |-> df[i].created_at, tags |-> df[i].tags, content |-> df[i].content]]

\* Mutant of Tables: a highlighted date counts as one more post of that date.
Tables_annotated(df) ==
    [tags_count |-> tags_count(df),
     posts_over_time |->
        [i \in 1..Len(posts_over_time(df)) |->
            <<posts_over_time(df)[i][1],
              posts_over_time(df)[i][2]
                + (IF posts_over_time(df)[i][1] \in DOMAIN highlights' THEN 1 ELSE 0)>>],
     day_of_week_count |-> day_of_week_count(df),
     hour_of_day_count |-> hour_of_day_count(df),
     posts |-> posts_table(df)]

Tables(df) ==
    [tags_count |-> tags_count(df),
     posts_over_time |-> posts_over_time(df),
     day_of_week_count |-> day_of_week_count(df),
     hour_of_day_count |-> hour_of_day_count(df),
     posts |-> posts_table(df)]

\* st.session_state["highlights"] after the form and the clear button are handled.
highlights_update(old, submit_button, highlight_date, highlight_text, clear_button) ==
    LET added ==
            IF submit_button /\ highlight_text # ""
            THEN [d \in DOMAIN old \cup {highlight_date} |->
                     IF d = highlight_date THEN highlight_text ELSE old[d]]
            ELSE old
    IN IF clear_button THEN <<>> ELSE added

(* ------------------------------------------------------------------ state *)
UsernameInputs == Usernames \cup {""}

Init ==
    /\ pc = "main"
    /\ runs = 1
    /\ trigger = "load"
    /\ username_input \in UsernameInputs   \* query parameter "username", default "m__b"
    /\ authCache = <<>>
    /\ statsCache = [k \in Keys |-> <<>>]
    /\ token = None
    /\ stats = <<>>
    /\ page = 1
    /\ user_content = <<>>
    /\ requested = <<>>
    /\ received = <<>>
    /\ authPosts = 0
    /\ authResp = <<>>
    /\ cacheSets = [k \in Keys |-> 0]
    /\ highlights = <<>>
    /\ messages = {}
    /\ charts = <<>>
    /\ rendered = [u \in Usernames |-> <<>>]

\* Mutant of Cached: the decorator is missing and every call runs the body.
Cached_never(entry) == FALSE

\* @st.cache_data: a stored entry answers the call without running the body.
Cached(entry) == entry # <<>>

(* --------------------------------------------------------- get_auth_token *)
\* auth_data["data"]["token"] of the parsed body; anything else raises inside try.
auth_token_of(response) ==
    IF /\ response.kind = "response"
       /\ response.body.json
       /\ "data" \in DOMAIN response.body.obj
       /\ "token" \in DOMAIN response.body.obj.data
    THEN <<response.body.obj.data.token>>
    ELSE <<>>

\* main line 173: token = get_auth_token()
get_auth_token(response) ==
    /\ pc = "main"
    /\ IF Cached(authCache)
       THEN /\ token' = authCache[1]
            /\ UNCHANGED <<authCache, authPosts, authResp, messages>>
       ELSE LET got == auth_token_of(response)
                value == IF got # <<>> THEN got[1] ELSE None
            IN /\ authPosts' = authPosts + 1
               /\ authResp' = <<response>>
               /\ messages' = IF got = <<>> THEN messages \cup {"auth_error"} ELSE messages
               /\ authCache' = <<value>>
               /\ token' = value
    /\ pc' = "token"
    /\ UNCHANGED <<runs, trigger, username_input, statsCache, stats, page, user_content,
                   requested, received, cacheSets, highlights, charts, rendered>>

(* ------------------------------------------------------------------- main *)
headers == Bearer(token)

\* main lines 174-181 and 186-187, up to the call of get_user_stats, whose
\* cache is looked up here and whose body starts with an empty list and page 1.
main_token ==
    /\ pc = "token"
    /\ IF ~Truthy(token)
       THEN /\ messages' = messages \cup {"no_token"}
            /\ pc' = "done"
            /\ UNCHANGED <<stats, page, user_content>>
       ELSE /\ UNCHANGED messages
            /\ IF username_input = ""
               THEN /\ pc' = "done"
                    /\ UNCHANGED <<stats, page, user_content>>
               ELSE IF Cached(statsCache[<<headers, username_input>>])
               THEN /\ stats' = statsCache[<<headers, username_input>>]
                    /\ pc' = "stats"
                    /\ UNCHANGED <<page, user_content>>
               ELSE /\ user_content' = <<>>
                    /\ page' = 1
                    /\ pc' = "loop"
                    /\ UNCHANGED stats
    /\ UNCHANGED <<runs, trigger, username_input, authCache, statsCache, token, requested,
                   received, authPosts, authResp, cacheSets, highlights, charts, rendered>>

(* --------------------------------------------------------- get_user_stats *)
\* Mutant of status_failed: the status of the response is not looked at.
status_unchecked(response) == FALSE

status_failed(response) == response.status # StatusOK

\* response.json().get("data", [])
json_data(obj) == IF "data" \in DOMAIN obj THEN obj.data ELSE <<>>

\* Mutant of end_of_listing: an empty page does not end the loop.
end_of_listing_never(user_tmp_content) == FALSE

end_of_listing(user_tmp_content) == user_tmp_content = <<>>

\* Mutant of extend: the new page is put in front of the earlier ones.
extend_front(content, user_tmp_content) == user_tmp_content \o content

extend(content, user_tmp_content) == content \o user_tmp_content

next_page(n) == n + 1

\* The upstream listing is finite: past MaxPage pages there is nothing to return.
Served(response, n) ==
    (/\ response.kind = "response"
     /\ response.status = StatusOK
     /\ response.body.json
     /\ json_data(response.body.obj) # <<>>) => n <= MaxPage

\* One turn of the while loop (lines 38-49). A transport error raised by
\* requests.get and a body response.json() cannot parse are not caught.
get_user_stats_request(response) ==
    /\ pc = "loop"
    /\ Served(response, page)
    /\ requested' = Append(requested, page)
    /\ received' = Append(received, response)
    /\ IF response.kind = "error"
       THEN /\ pc' = "crashed"
            /\ UNCHANGED <<messages, user_content, page>>
       ELSE IF status_failed(response)
       THEN /\ messages' = messages \cup {"fetch_error"}
            /\ pc' = "extract"
            /\ UNCHANGED <<user_content, page>>
       ELSE IF ~response.body.json
       THEN /\ pc' = "crashed"
            /\ UNCHANGED <<messages, user_content, page>>
       ELSE LET user_tmp_content == json_data(response.body.obj)
            IN IF end_of_listing(user_tmp_content)
               THEN /\ pc' = "extract"
                    /\ UNCHANGED <<messages, user_content, page>>
               ELSE /\ user_content' = extend(user_content, user_tmp_content)
                    /\ page' = next_page(page)
                    /\ pc' = "loop"
                    /\ UNCHANGED messages
    /\ UNCHANGED <<runs, trigger, username_input, authCache, statsCache, token, stats,
                   authPosts, authResp, cacheSets, highlights, charts, rendered>>

\* Line 51: return extract_data(user_content); the value returned is stored by
\* st.cache_data. A KeyError of extract_data leaves the function uncached.
get_user_stats_return ==
    /\ pc = "extract"
    /\ IF extract_data_raises(user_content)
       THEN /\ pc' = "crashed"
            /\ UNCHANGED <<stats, statsCache, cacheSets>>
       ELSE LET key == <<headers, username_input>>
                value == extract_data(user_content)
            IN /\ stats' = <<value>>
               /\ statsCache' = [statsCache EXCEPT ![key] = <<value>>]
               /\ cacheSets' = [cacheSets EXCEPT ![key] = @ + 1]
               /\ pc' = "stats"
    /\ UNCHANGED <<runs, trigger, username_input, authCache, token, page, user_content,
                   requested, received, authPosts, authResp, highlights, messages, charts,
                   rendered>>

(* ------------------------------------------------------- main, lines 182-185 *)
\* Mutant of show_charts: the charts are drawn whatever the list holds.
show_charts_always(collection) == TRUE

show_charts(collection) == collection # <<>>

main_stats ==
    /\ pc = "stats"
    /\ IF show_charts(stats[1])
       THEN /\ pc' = "charts"
            /\ UNCHANGED messages
       ELSE /\ messages' = messages \cup {"no_data"}
            /\ pc' = "done"
    /\ UNCHANGED <<runs, trigger, username_input, authCache, statsCache, token, stats, page,
                   user_content, requested, received, authPosts, authResp, cacheSets,
                   highlights, charts, rendered>>

(* --------------------------------------------------------- generate_charts *)
\* The whole of generate_charts(stats). The form's date is limited to the
\* dates of the data frame; the buttons are set only in the run they started.
\* An empty list has no "created_at" column and line 56 raises.
generate_charts(highlight_date, highlight_text) ==
    /\ pc = "charts"
    /\ IF stats[1] = <<>>
       THEN /\ pc' = "crashed"
            /\ UNCHANGED <<highlights, charts, rendered>>
       ELSE LET df == DataFrame(stats[1])
                dates == Range(Column(df, "date"))
            IN /\ highlight_date \in SetMin(dates)..SetMax(dates)
               /\ highlights' = highlights_update(highlights, trigger = "submit",
                                    highlight_date, highlight_text, trigger = "clear")
               /\ charts' = <<[tables |-> Tables(df), annotations |-> highlights']>>
               /\ rendered' = [rendered EXCEPT ![username_input] = <<Tables(df)>>]
               /\ pc' = "done"
    /\ UNCHANGED <<runs, trigger, username_input, authCache, statsCache, token, stats, page,
                   user_content, requested, received, authPosts, authResp, cacheSets,
                   messages>>

(* ------------------------------------------------------------ script reruns *)
\* A widget interaction starts the script again: a new username in the text
\* input (drawn only when there is a token), the form's submit button or the
\* clear button (drawn by generate_charts), or a plain rerun.
rerun(widget, text) ==
    /\ pc \in {"done", "crashed"}
    /\ runs < MaxRuns
    /\ \/ widget = "rerun" /\ text = username_input
       \/ widget = "username" /\ Truthy(token) /\ text # username_input
       \/ widget \in {"submit", "clear"} /\ charts # <<>> /\ text = username_input
    /\ trigger' = widget
    /\ username_input' = text
    /\ runs' = runs + 1
    /\ pc' = "main"
    /\ token' = None
    /\ stats' = <<>>
    /\ page' = 1
    /\ user_content' = <<>>
    /\ requested' = <<>>
    /\ received' = <<>>
    /\ messages' = {}
    /\ charts' = <<>>
    /\ UNCHANGED <<authCache, statsCache, authPosts, authResp, cacheSets, highlights,
                   rendered>>

(* --------------------------------------------------------- specifications *)
Dates == 0..2

\* One script run over the full range of answers.
Next ==
    \/ \E response \in AuthResponses : get_auth_token(response)
    \/ main_token
    \/ \E response \in ListingResponses(ListingPages) :
          get_user_stats_request(response)
    \/ get_user_stats_return
    \/ main_stats
    \/ \E d \in Dates, t \in Texts \cup {""} : generate_charts(d, t)

Spec == Init /\ [][Next]_vars

\* A session of reruns with both caches in play.
NextSession ==
    \/ \E response \in SessionAuthResponses : get_auth_token(response)
    \/ main_token
    \/ \E response \in ListingResponses(SessionPages) :
          get_user_stats_request(response)
    \/ get_user_stats_return
    \/ main_stats
    \/ \E d \in Dates, t \in Texts \cup {""} : generate_charts(d, t)
    \/ \E widget \in {"rerun", "username", "submit", "clear"}, text \in UsernameInputs :
          rerun(widget, text)

SpecSession == Init /\ [][NextSession]_vars

(* ------------------------------------------------ what the claims speak of *)
IsFullPage(r) ==
    /\ r.kind = "response" /\ r.status = 200 /\ r.body.json
    /\ "data" \in DOMAIN r.body.obj /\ Len(r.body.obj.data) > 0

IsEmptyPage(r) ==
    /\ r.kind = "response" /\ r.status = 200 /\ r.body.json
    /\ ("data" \in DOMAIN r.body.obj => Len(r.body.obj.data) = 0)

IsFailedPage(r) == r.kind = "response" /\ r.status # 200

\* The records of the first k responses, page after page.
RECURSIVE RecordsOf(_, _)
RecordsOf(rs, k) ==
    IF k = 0 THEN <<>>
    ELSE RecordsOf(rs, k - 1)
            \o (IF "data" \in DOMAIN rs[k].body.obj THEN rs[k].body.obj.data ELSE <<>>)

FullBefore(K) == \A i \in 1..(K - 1) : IsFullPage(received[i])
PagesUpTo(K) == [i \in 1..K |-> i]

Projection(rec) ==
    [created_at |-> rec.created_at, tags |-> rec.tags, content |-> rec.content]

\* C1: when pages 1..K-1 are non-empty and page K is empty, the loop has
\* stopped with the records of pages 1..K-1, having asked for pages 1..K only.
C1_StopsAtEmptyPage ==
    \A K \in 1..Len(received) :
        (IsEmptyPage(received[K]) /\ FullBefore(K)) =>
            /\ Len(received) = K
            /\ requested = PagesUpTo(K)
            /\ pc # "loop"
            /\ user_content = RecordsOf(received, K - 1)

C1_Witness ==
    /\ pc = "done"
    /\ Len(received) = MaxPage + 1
    /\ IsEmptyPage(received[MaxPage + 1]) /\ FullBefore(MaxPage + 1)
    /\ Len(requested) = MaxPage + 1

\* C2: when pages 1..K-1 are non-empty and page K has a status other than
\* 200, the loop has stopped after asking for pages 1..K once each, the error
\* is reported, and the list returned is the records of pages 1..K-1.
C2_StopsAtFailedPage ==
    \A K \in 1..Len(received) :
        (IsFailedPage(received[K]) /\ FullBefore(K)) =>
            /\ Len(received) = K
            /\ requested = PagesUpTo(K)
            /\ pc # "loop"
            /\ "fetch_error" \in messages
            /\ user_content = RecordsOf(received, K - 1)
            /\ stats # <<>> =>
                  /\ Len(stats[1]) = Len(RecordsOf(received, K - 1))
                  /\ \A j \in 1..Len(stats[1]) :
                        stats[1][j] = Projection(RecordsOf(received, K - 1)[j])

C2_Witness ==
    /\ pc = "done"
    /\ Len(received) = MaxPage + 1
    /\ IsFailedPage(received[MaxPage + 1]) /\ FullBefore(MaxPage + 1)
    /\ stats # <<>> /\ Len(stats[1]) > MaxPage

\* C3: when every page asked for came back with status 200, the list returned
\* has one record per record received, in page order and then in the order
\* within the page, each with exactly the fields created_at, tags, content.
C3_AllRecordsInOrder ==
    (/\ stats # <<>>
     /\ received # <<>>
     /\ \A i \in 1..Len(received) : IsFullPage(received[i]) \/ IsEmptyPage(received[i])) =>
        LET all == RecordsOf(received, Len(received))
        IN /\ Len(stats[1]) = Len(all)
           /\ \A j \in 1..Len(stats[1]) :
                 /\ DOMAIN stats[1][j] = {"created_at", "tags", "content"}
                 /\ stats[1][j] = Projection(all[j])

C3_Witness ==
    /\ stats # <<>>
    /\ Len(received) = MaxPage + 1
    /\ \A i \in 1..Len(received) : IsFullPage(received[i]) \/ IsEmptyPage(received[i])
    /\ Len(stats[1]) > MaxPage
    /\ stats[1][1] # stats[1][2]

\* C4: after a failed authentication (transport failure, a status other than
\* 200, or a body without data.token) get_auth_token has returned no token,
\* and a listing request is made only with a token.
AuthFailed ==
    /\ authResp # <<>>
    /\ \/ authResp[1].kind = "error"
       \/ authResp[1].status # 200
       \/ ~authResp[1].body.json
       \/ "data" \notin DOMAIN authResp[1].body.obj
       \/ "token" \notin DOMAIN authResp[1].body.obj.data

C4_NoTokenNoListing ==
    /\ AuthFailed => (authCache[1] \in {None, ""} /\ requested = <<>>)
    /\ requested # <<>> => token \notin {None, ""}

\* C5: a listing request that fails in any way (transport error, a status
\* other than 200, a body that is not JSON, a record without a field) does
\* not end the run with an exception, and the run ends with the records of
\* the pages before it returned and shown.
C5_NoFailureCrashes ==
    /\ pc # "crashed"
    /\ \A K \in 1..Len(received) :
          (FullBefore(K) /\ ~IsFullPage(received[K]) /\ ~IsEmptyPage(received[K])) =>
              (pc = "done" =>
                  /\ stats # <<>>
                  /\ Len(stats[1]) = Len(RecordsOf(received, K - 1))
                  /\ (K > 1 => charts # <<>>))

\* C6: generate_charts is never entered with an empty list; a call that
\* returns no records ends the run with the no-data notice and no tables.
C6_NoChartsWithoutData ==
    /\ pc = "charts" => stats[1] # <<>>
    /\ charts # <<>> => stats[1] # <<>>
    /\ (pc = "done" /\ stats = << <<>> >>) => ("no_data" \in messages /\ charts = <<>>)

C6_Witness == pc = "done" /\ stats = << <<>> >> /\ "no_data" \in messages

\* The hours and dates of the records of the list, read off the created_at text.
HoursOf(collection) == {collection[i].created_at[2] : i \in 1..Len(collection)}
DatesOf(collection) == {collection[i].created_at[1] : i \in 1..Len(collection)}
AtHour(collection, h) == Cardinality({i \in 1..Len(collection) : collection[i].created_at[2] = h})
OnDate(collection, d) == Cardinality({i \in 1..Len(collection) : collection[i].created_at[1] = d})

C9_DailyTableIsDense ==
    charts # <<>> =>
        LET t == charts[1].tables.posts_over_time
            lo == SetMin(DatesOf(stats[1]))
            hi == SetMax(DatesOf(stats[1]))
        IN /\ Len(t) = hi - lo + 1
           /\ \A i \in 1..Len(t) : t[i] = <<lo + i - 1, OnDate(stats[1], lo + i - 1)>>

C9_Witness ==
    /\ charts # <<>>
    /\ \E i \in 1..Len(charts[1].tables.posts_over_time) :
          charts[1].tables.posts_over_time[i][2] = 0
    /\ \E i \in 1..Len(charts[1].tables.posts_over_time) :
          charts[1].tables.posts_over_time[i][2] > 1

\* C7: a cache entry of get_user_stats, once written, is never written again;
\* a call whose key is in the cache makes no listing request and returns the
\* stored list; the process posts to /auth at most once.
C7_Memoized ==
    [][/\ \A k \in Keys :
             /\ statsCache[k] # <<>> => statsCache'[k] = statsCache[k]
             /\ cacheSets'[k] <= 1
       /\ authPosts' <= 1
       /\ (Len(requested') > Len(requested)) =>
             statsCache[<<headers, username_input>>] = <<>>
       /\ (pc = "token" /\ token \notin {None, ""} /\ username_input # ""
             /\ statsCache[<<headers, username_input>>] # <<>>) =>
                (stats' = statsCache[<<headers, username_input>>] /\ requested' = <<>>)
      ]_vars

C7_Witness ==
    /\ runs > 1
    /\ pc = "stats"
    /\ requested = <<>>
    /\ cacheSets[<<headers, username_input>>] = 1
    /\ stats[1] # <<>>
    /\ authPosts = 1

\* C10: adding or clearing highlights changes neither the stored lists nor
\* the tables rendered for a username: once rendered they stay as they are.
C10_HighlightsLeaveTablesAlone ==
    [][/\ \A u \in Usernames : rendered[u] # <<>> => rendered'[u] = rendered[u]
       /\ highlights' # highlights => (statsCache' = statsCache /\ stats' = stats)
      ]_vars

C10_Witness ==
    /\ pc = "done"
    /\ trigger = "submit"
    /\ highlights # <<>>
    /\ charts # <<>>
    /\ charts[1].annotations = highlights
    /\ rendered[username_input] = <<charts[1].tables>>

====
